---- MODULE Spec2Model ----
(***************************************************************************)
(* Seismic-event core of the sismo-deteccion backend:                      *)
(*   - SismoService.parseMagnitud        (field sanitizer, pure)           *)
(*   - SismoService.cargarSismosDesdeCSV (CSV ingestion pipeline)          *)
(*   - GrafoService                      (graph relationship builder)      *)
(*   - GrafoController                   (bulk load and export endpoints)  *)
(*   - PropagationService/Controller     (wave propagation time steps)     *)
(* Each component has its own specification over the shared variables; a   *)
(* specification keeps the variables of the other components at their      *)
(* initial values.                                                         *)
(***************************************************************************)
EXTENDS Integers, Sequences, FiniteSets, TLC

VARIABLES
    \* --- parseMagnitud harness ---
    magnitudStr,         \* the raw string handed to parseMagnitud
    magnitud,            \* the Double it returned (Pendiente before the call)
    \* --- cargarSismosDesdeCSV ---
    pc,                  \* "leyendo" | "retornado" | "abortado"
    registrosProcesados, \* int registrosProcesados
    totalRegistros,      \* int totalRegistros (the value returned)
    registrosErroneos,   \* int registrosErroneos
    erroresPorTipo,      \* Map<String,Integer> erroresPorTipo
    sismosBatch,         \* List<Sismo> sismosBatch
    almacen,             \* rows of table sismos written by this run (record numbers)
    ultimoGuardado,      \* history: what the last loop iteration did to the store
    fallosPorCampo,      \* history: per field, rows whose field did not parse
    filasCompletas,      \* history: record numbers of rows with all header fields
    trasFilaCorta,       \* history: record numbers of full rows read after a short row
    falloGuardado,       \* history: some saveAll/save call of this run has thrown
    falloLectura,        \* history: the parser failed while reading a record
    \* --- GrafoService ---
    nodos,               \* SismoNode store, indexed by codigo
    ubicaciones,         \* UbicacionNode store, indexed by codigo
    reaplicaciones,      \* number of calls of the establecerRelaciones methods on stored nodes
    \* --- GrafoController ---
    ultimaCarga,         \* outcome of the last POST /cargar-existentes
    exportado,           \* last GET /visualizacion: arguments, graph read, result
    \* --- PropagationController / PropagationService ---
    request,             \* PropagationRequest: durationSeconds, intervalSeconds
    time,                \* int time of the running for loop
    timeSteps,           \* List<WavePropagation> of the response
    pcPropagacion,       \* "servicio" | "controlador" | "respondido" | "sinMemoria"
    \* --- concurrent calls of GrafoService.crearNodoSismo ---
    hilos                \* per request thread: position in crearNodoSismo, its Sismo,
                         \* the location its lookup returned

varsMagnitud == <<magnitudStr, magnitud>>
varsCSV == <<pc, registrosProcesados, totalRegistros, registrosErroneos, erroresPorTipo,
             sismosBatch, almacen, ultimoGuardado, fallosPorCampo,
             filasCompletas, trasFilaCorta, falloGuardado, falloLectura>>
varsGrafo == <<nodos, ubicaciones, reaplicaciones>>
varsControlador == <<ultimaCarga, exportado>>
varsPropagacion == <<request, time, timeSteps, pcPropagacion>>
varsConcurrente == <<hilos>>
varsResto == <<varsControlador, varsPropagacion, varsConcurrente>>
vars == <<varsMagnitud, varsCSV, varsGrafo, varsResto>>

(***************************************************************************)
(* Strings are sequences of one-character strings.                         *)
(***************************************************************************)
Digitos == {"0", "1", "2", "3", "4", "5", "6", "7", "8", "9"}

DigitVal(c) ==
    CASE c = "0" -> 0 [] c = "1" -> 1 [] c = "2" -> 2 [] c = "3" -> 3 [] c = "4" -> 4
      [] c = "5" -> 5 [] c = "6" -> 6 [] c = "7" -> 7 [] c = "8" -> 8 [] c = "9" -> 9

RECURSIVE Pow10(_)
Pow10(e) == IF e = 0 THEN 1 ELSE 10 * Pow10(e - 1)

(***************************************************************************)
(* A double is kept as an exact decimal m / 10^e with a sign flag; Dec     *)
(* normalises so that equal numbers are equal records.  (Binary rounding   *)
(* of the repeated division is not modelled.)                              *)
(***************************************************************************)
RECURSIVE Dec(_, _)
Dec(m, e) == IF e > 0 /\ m % 10 = 0 THEN Dec(m \div 10, e - 1) ELSE [m |-> m, e |-> e]

Cero == Dec(0, 0)
Pendiente == [m |-> -1, e |-> 0]

\* a <= b for normalised decimals
DecLeq(a, b) == a.m * Pow10(b.e) <= b.m * Pow10(a.e)

\* String.trim(): drops leading and trailing characters <= ' '
RECURSIVE TrimLeft(_)
TrimLeft(s) == IF s # <<>> /\ Head(s) = " " THEN TrimLeft(Tail(s)) ELSE s

RECURSIVE TrimRight(_)
TrimRight(s) ==
    IF s # <<>> /\ s[Len(s)] = " " THEN TrimRight(SubSeq(s, 1, Len(s) - 1)) ELSE s

Trim(s) == TrimRight(TrimLeft(s))

\* String.replace(',', '.')
ReplaceComma(s) == [i \in 1..Len(s) |-> IF s[i] = "," THEN "." ELSE s[i]]

\* String.replaceAll("[^0-9.-]", "")
StripNonNumeric(s) == SelectSeq(s, LAMBDA c : c \in Digitos \cup {".", "-"})

\* String.indexOf('.') as a 1-based position, 0 when absent
RECURSIVE IndexOfDot(_, _)
IndexOfDot(s, i) ==
    IF i > Len(s) THEN 0 ELSE IF s[i] = "." THEN i ELSE IndexOfDot(s, i + 1)

RemoveDots(s) == SelectSeq(s, LAMBDA c : c # ".")

KeepFirstDotOnlyFirstField(s) ==
    LET firstDot == IndexOfDot(s, 1)
        rest == SubSeq(s, firstDot + 1, Len(s))
        nextDot == IndexOfDot(rest, 1)
    IN  IF firstDot = 0 \/ nextDot = 0 THEN s
        ELSE SubSeq(s, 1, firstDot) \o SubSeq(rest, 1, nextDot - 1)

\* Paso 5: cleaned.substring(0, firstDot + 1) + cleaned.substring(firstDot + 1).replace(".", "")
KeepFirstDot(s) ==
    LET firstDot == IndexOfDot(s, 1)
    IN  IF firstDot = 0 THEN s
        ELSE SubSeq(s, 1, firstDot) \o RemoveDots(SubSeq(s, firstDot + 1, Len(s)))

RECURSIVE DigitsValue(_)
DigitsValue(s) ==
    IF s = <<>> THEN 0 ELSE 10 * DigitsValue(SubSeq(s, 1, Len(s) - 1)) + DigitVal(s[Len(s)])

AllDigits(s) == \A i \in 1..Len(s) : s[i] \in Digitos

(***************************************************************************)
(* Double.parseDouble on a string over [0-9.-] with at most one '.':       *)
(* an optional leading '-', then digits with an optional '.', at least one *)
(* digit; anything else is a NumberFormatException (ok = FALSE).           *)
(***************************************************************************)
parseDouble(s) ==
    LET neg == s # <<>> /\ Head(s) = "-"
        body == IF neg THEN Tail(s) ELSE s
        dot == IndexOfDot(body, 1)
        ent == IF dot = 0 THEN body ELSE SubSeq(body, 1, dot - 1)
        frac == IF dot = 0 THEN <<>> ELSE SubSeq(body, dot + 1, Len(body))
        ok == AllDigits(ent) /\ AllDigits(frac) /\ Len(ent) + Len(frac) > 0
    IN  IF ok
        THEN [ok |-> TRUE, neg |-> neg, m |-> DigitsValue(ent \o frac), e |-> Len(frac)]
        ELSE [ok |-> FALSE, neg |-> FALSE, m |-> 0, e |-> 0]

\* Paso 7, second branch: while (valor > 10.0) valor /= 10
RECURSIVE DividirHastaDiez(_, _)
DividirHastaDiez(m, e) ==
    IF m > 10 * Pow10(e) THEN DividirHastaDiez(m, e + 1) ELSE Dec(m, e)

\* Paso 7, first branch: if (valor < 0) return Math.abs(valor)
CorregirNegativo(m, e) == Dec(m, e)

\* Paso 3 and Paso 4 of parseMagnitud: the cleaned string before the dot repair
LimpiarSinComa(magStr) == StripNonNumeric(Trim(magStr))

Limpiar(magStr) == StripNonNumeric(ReplaceComma(Trim(magStr)))

parseMagnitud(magStr) ==
    IF Trim(magStr) = <<>> THEN Cero
    ELSE LET cleaned == Limpiar(magStr)
         IN  IF cleaned = <<>> \/ cleaned = <<"-">> \/ cleaned = <<".">> THEN Cero
             ELSE LET p == parseDouble(KeepFirstDot(cleaned))
                  IN  IF ~p.ok THEN Cero
                      ELSE IF p.neg /\ p.m > 0 THEN CorregirNegativo(p.m, p.e)
                      ELSE DividirHastaDiez(p.m, p.e)

(***************************************************************************)
(* Inputs of the parseMagnitud harness.                                    *)
(***************************************************************************)
MaxLen == 3

Alfabeto == {"7", "5", "0", ",", ".", "-", "a", " "}

RECURSIVE Cadenas(_)
Cadenas(n) ==
    IF n = 0 THEN {<<>>}
    ELSE LET menores == Cadenas(n - 1)
         IN  menores \cup {Append(s, c) : s \in {t \in menores : Len(t) = n - 1}, c \in Alfabeto}

Ejemplos ==
    { <<"7", ",", "5">>, <<"7", "5">>, <<"-", "3", ".", "2">>, <<>>, <<"a", "b", "c">>,
      <<"6", ".", "1", ".", "2">>, <<"M", ":", "5", ".", "2", "°">>, <<"-", "7", "5">>,
      <<"1", "2", "3", "4", "5">>, <<"1", ".", "2", ".", "3", ".", "4">>, <<"a", "0", ",", "5">> }

Entradas == Cadenas(MaxLen) \cup Ejemplos

InitMagnitud ==
    /\ magnitudStr \in Entradas
    /\ magnitud = Pendiente

LlamarParseMagnitud ==
    /\ magnitud = Pendiente
    /\ magnitud' = parseMagnitud(magnitudStr)
    /\ UNCHANGED magnitudStr


(***************************************************************************)
(* cargarSismosDesdeCSV                                                    *)
(***************************************************************************)
\* Stand-in for the batch size 500 of line 217, scaled down for checking.
BatchSize == 2
\* Longest file read in a run of Spec.
MaxFilas == 4
\* Longest file read in a run of SpecCampos.
MaxFilasCampos == 2

Tipos == {"fecha_invalida", "magnitud_invalida", "latitud_invalida", "longitud_invalida",
          "profundidad_invalida", "error_general"}

Campos == {"fecha", "magnitud", "latitud", "longitud", "profundidad"}

\* Texts the magnitud column takes in the files of SpecCampos: plain and garbled
MagnitudesCSV == { <<"5", ".", "2">>, <<"M", ":", "5", ".", "2", "°">> }

(***************************************************************************)
(* A CSV record.  completa = FALSE is a record with fewer fields than the  *)
(* header, for which record.get(columna) throws.  A date or coordinate     *)
(* column is "ok" (text the parser accepts) or "mal" (text it rejects).    *)
(***************************************************************************)
FilaCorta ==
    [completa |-> FALSE, fecha |-> "mal", magnitud |-> <<>>, latitud |-> "mal",
     longitud |-> "mal", profundidad |-> "mal", fechaUTC |-> "mal"]

\* every combination of parseable and unparseable fecha, magnitud, latitud,
\* longitud and profundidad
FilasTodas ==
    [completa : {TRUE}, fecha : {"ok", "mal"}, magnitud : MagnitudesCSV,
     latitud : {"ok", "mal"}, longitud : {"ok", "mal"}, profundidad : {"ok", "mal"},
     fechaUTC : {"ok"}] \cup {FilaCorta}

FilaLimpia ==
    [completa |-> TRUE, fecha |-> "ok", magnitud |-> <<"5", ".", "2">>, latitud |-> "ok",
     longitud |-> "ok", profundidad |-> "ok", fechaUTC |-> "ok"]

\* the rows of the files read in Spec: clean, one field bad, every field bad, short
Filas ==
    { FilaLimpia,
      [FilaLimpia EXCEPT !.fecha = "mal"],
      [FilaLimpia EXCEPT !.magnitud = <<"M", ":", "5", ".", "2", "°">>],
      [FilaLimpia EXCEPT !.latitud = "mal"],
      [FilaLimpia EXCEPT !.longitud = "mal"],
      [FilaLimpia EXCEPT !.profundidad = "mal"],
      [FilaLimpia EXCEPT !.fechaUTC = "mal"],
      [FilaLimpia EXCEPT !.fecha = "mal", !.magnitud = <<"a", "b", "c">>, !.latitud = "mal",
                         !.longitud = "mal", !.profundidad = "mal", !.fechaUTC = "mal"],
      FilaCorta }

\* the magnitud text holds a character that is not part of a plain number
Garbled(s) == \E i \in 1..Len(s) : s[i] \notin Digitos \cup {".", "-"}

\* contarError: erroresPorTipo.put(tipo, erroresPorTipo.getOrDefault(tipo, 0) + 1)
contarError(errores, tipoError) == [errores EXCEPT ![tipoError] = @ + 1]

RECURSIVE contarErrores(_, _)
contarErrores(errores, tipos) ==
    IF tipos = {} THEN errores
    ELSE LET t == CHOOSE x \in tipos : TRUE
         IN  contarErrores(contarError(errores, t), tipos \ {t})

\* LocalDate.parse(fechaStr, dateFormatter) / Double.parseDouble(str): throws on "mal"
Lanza(texto) == texto # "ok"

(***************************************************************************)
(* Lines 127-207: the Sismo built from a complete record, with the error   *)
(* kinds its catch blocks count.  parseMagnitud catches its own            *)
(* NumberFormatException, so the magnitud catch block (155-160) is never   *)
(* entered.                                                                *)
(***************************************************************************)
FechaDe(fila) == IF Lanza(fila.fecha) THEN "hoy" ELSE "csv"

construirSismo(fila, numero) ==
    [ id          |-> numero,
      fecha       |-> FechaDe(fila),
      magnitud    |-> parseMagnitud(fila.magnitud),
      latitud     |-> IF Lanza(fila.latitud) THEN "0.0" ELSE "csv",
      longitud    |-> IF Lanza(fila.longitud) THEN "0.0" ELSE "csv",
      profundidad |-> IF Lanza(fila.profundidad) THEN "0.0" ELSE "csv",
      fechaUTC    |-> IF Lanza(fila.fechaUTC) THEN FechaDe(fila) ELSE "csvUTC" ]

\* the profundidad catch block left without its contarError
erroresDeFilaSinProfundidad(fila) ==
    {t \in Tipos :
        \/ t = "fecha_invalida" /\ Lanza(fila.fecha)
        \/ t = "latitud_invalida" /\ Lanza(fila.latitud)
        \/ t = "longitud_invalida" /\ Lanza(fila.longitud)}

erroresDeFila(fila) ==
    {t \in Tipos :
        \/ t = "fecha_invalida" /\ Lanza(fila.fecha)
        \/ t = "latitud_invalida" /\ Lanza(fila.latitud)
        \/ t = "longitud_invalida" /\ Lanza(fila.longitud)
        \/ t = "profundidad_invalida" /\ Lanza(fila.profundidad)}

\* Lines 209-214: a record with field errors is counted and still added to the batch
AgregarSoloSinError(lote, sismo, errorEnRegistro) ==
    IF errorEnRegistro THEN lote ELSE Append(lote, sismo)

AgregarAlLote(lote, sismo, errorEnRegistro) == Append(lote, sismo)

Ids(lote) == {lote[i].id : i \in 1..Len(lote)}

\* the test one record too late
LoteLlenoTarde(lote) == Len(lote) > BatchSize

\* line 217: sismosBatch.size() >= 500
LoteLleno(lote) == Len(lote) >= BatchSize

\* guardarRegistrosPorRegistro: the records saved one by one; exitosos are the
\* record numbers whose sismoRepository.save does not throw
RECURSIVE GuardarHastaPrimerFallo(_, _)
GuardarHastaPrimerFallo(sismos, exitosos) ==
    IF sismos = <<>> \/ Head(sismos).id \notin exitosos THEN {}
    ELSE {Head(sismos).id} \cup GuardarHastaPrimerFallo(Tail(sismos), exitosos)

guardarRegistrosPorRegistro(sismos, exitosos) ==
    {sismos[i].id : i \in {j \in 1..Len(sismos) : sismos[j].id \in exitosos}}

SinGuardado == [tipo |-> "ninguno", lote |-> {}, exitosos |-> {}]

(***************************************************************************)
(* Lines 218-225 and 243-250: saveAll, and on failure the per-record       *)
(* fallback whose count is discarded.  saveAll is taken as a unit: when it *)
(* throws, none of its records is written by it.                           *)
(***************************************************************************)
guardarLote(lote, loteOk, exitosos) ==
    IF loteOk
    THEN [escritos |-> Ids(lote), sumados |-> Len(lote),
          registro |-> [tipo |-> "lote", lote |-> Ids(lote), exitosos |-> Ids(lote)]]
    ELSE [escritos |-> guardarRegistrosPorRegistro(lote, exitosos), sumados |-> 0,
          registro |-> [tipo |-> "individual", lote |-> Ids(lote), exitosos |-> exitosos]]

\* Line 234-238: the catch of an unexpected error swallows it and the loop goes on
TrasErrorAborta == "abortado"

TrasErrorInesperado == "leyendo"

InitCSVVars ==
    /\ pc = "leyendo"
    /\ registrosProcesados = 0
    /\ totalRegistros = 0
    /\ registrosErroneos = 0
    /\ erroresPorTipo = [t \in Tipos |-> 0]
    /\ sismosBatch = <<>>
    /\ almacen = {}
    /\ ultimoGuardado = SinGuardado
    /\ fallosPorCampo = [c \in Campos |-> 0]
    /\ filasCompletas = {}
    /\ trasFilaCorta = {}
    /\ falloGuardado = FALSE
    /\ falloLectura = FALSE

\* One iteration of the loop of lines 118-239 on a record with missing fields:
\* record.get throws inside the try, the catch at 234 counts error_general.
LeerFilaCorta(fila) ==
    /\ ~fila.completa
    /\ registrosProcesados' = registrosProcesados + 1
    /\ registrosErroneos' = registrosErroneos + 1
    /\ erroresPorTipo' = contarError(erroresPorTipo, "error_general")
    /\ pc' = TrasErrorInesperado
    /\ ultimoGuardado' = SinGuardado
    /\ UNCHANGED <<totalRegistros, sismosBatch, almacen, fallosPorCampo, filasCompletas,
                   trasFilaCorta, falloGuardado, falloLectura>>

\* One iteration of the loop of lines 118-239 on a complete record.
LeerFilaCompleta(fila) ==
    /\ fila.completa
    /\ LET numero == registrosProcesados + 1
           sismo == construirSismo(fila, numero)
           errs == erroresDeFila(fila)
           errorEnRegistro == errs # {}
           lote == AgregarAlLote(sismosBatch, sismo, errorEnRegistro)
       IN  /\ registrosProcesados' = numero
           /\ erroresPorTipo' = contarErrores(erroresPorTipo, errs)
           /\ registrosErroneos' = registrosErroneos + (IF errorEnRegistro THEN 1 ELSE 0)
           /\ filasCompletas' = filasCompletas \cup {numero}
           /\ trasFilaCorta' =
                 IF erroresPorTipo["error_general"] > 0 THEN trasFilaCorta \cup {numero}
                 ELSE trasFilaCorta
           /\ fallosPorCampo' =
                 [c \in Campos |->
                    fallosPorCampo[c] +
                    (IF \/ c = "magnitud" /\ Garbled(fila.magnitud)
                        \/ c # "magnitud" /\ Lanza(fila[c])
                     THEN 1 ELSE 0)]
           /\ IF LoteLleno(lote)
              THEN \E loteOk \in BOOLEAN :
                   \E exitosos \in (IF loteOk THEN {Ids(lote)} ELSE SUBSET Ids(lote)) :
                      LET g == guardarLote(lote, loteOk, exitosos)
                      IN  /\ almacen' = almacen \cup g.escritos
                          /\ totalRegistros' = totalRegistros + g.sumados
                          /\ ultimoGuardado' = g.registro
                          /\ falloGuardado' = (falloGuardado \/ ~loteOk)
                          /\ sismosBatch' = <<>>
              ELSE /\ sismosBatch' = lote
                   /\ ultimoGuardado' = SinGuardado
                   /\ UNCHANGED <<almacen, totalRegistros, falloGuardado>>
           /\ pc' = "leyendo"
           /\ UNCHANGED falloLectura

LeerFila(filas, maxFilas) ==
    /\ pc = "leyendo"
    /\ registrosProcesados < maxFilas
    /\ \E fila \in filas : LeerFilaCorta(fila) \/ LeerFilaCompleta(fila)

\* Lines 241-260: the parser is exhausted; the remaining records are saved and
\* totalRegistros is returned.  The method-level transaction commits.
FinArchivo ==
    /\ pc = "leyendo"
    /\ IF sismosBatch # <<>>
       THEN \E loteOk \in BOOLEAN :
            \E exitosos \in (IF loteOk THEN {Ids(sismosBatch)} ELSE SUBSET Ids(sismosBatch)) :
               LET g == guardarLote(sismosBatch, loteOk, exitosos)
               IN  /\ almacen' = almacen \cup g.escritos
                   /\ totalRegistros' = totalRegistros + g.sumados
                   /\ ultimoGuardado' = g.registro
                   /\ falloGuardado' = (falloGuardado \/ ~loteOk)
       ELSE /\ ultimoGuardado' = SinGuardado
            /\ UNCHANGED <<almacen, totalRegistros, falloGuardado>>
    /\ pc' = "retornado"
    /\ UNCHANGED <<registrosProcesados, registrosErroneos, erroresPorTipo, sismosBatch,
                   fallosPorCampo, filasCompletas, trasFilaCorta, falloLectura>>

(***************************************************************************)
(* The parser's iterator throws while reading the next record (line 118,   *)
(* outside the try of line 119): the exception leaves the method, and the  *)
(* @Transactional of line 95 rolls back what the run wrote.  On tables     *)
(* without transaction support (dbschema/init.sql declares MyISAM) the     *)
(* rollback leaves the rows in place; both outcomes are possible.          *)
(***************************************************************************)
FalloLectura ==
    /\ pc = "leyendo"
    /\ pc' = "abortado"
    /\ falloLectura' = TRUE
    /\ \E revierte \in BOOLEAN : almacen' = IF revierte THEN {} ELSE almacen
    /\ UNCHANGED <<registrosProcesados, totalRegistros, registrosErroneos, erroresPorTipo,
                   sismosBatch, ultimoGuardado, fallosPorCampo, filasCompletas,
                   trasFilaCorta, falloGuardado>>

InitGrafoVars ==
    /\ nodos = <<>>
    /\ ubicaciones = <<>>
    /\ reaplicaciones = 0

InitMagnitudFija ==
    /\ magnitudStr = <<>>
    /\ magnitud = Pendiente

\* no answer yet: respondida is FALSE
SinCarga == [respondida |-> FALSE, llamada |-> FALSE, lista |-> <<>>, largo |-> 0,
             falla |-> 0, aplicados |-> 0, excepcion |-> FALSE, success |-> FALSE]

\* no export answered yet: hecho is FALSE
SinExportar == [hecho |-> FALSE, args |-> <<>>, grafo |-> <<>>, ubicaciones |-> <<>>,
                nodes |-> {}, edges |-> {}]

InitControlador ==
    /\ ultimaCarga = SinCarga
    /\ exportado = SinExportar

\* a request of one step, not yet served
InitPropagacionFija ==
    /\ request = [durationSeconds |-> 0, intervalSeconds |-> 1]
    /\ time = 0
    /\ timeSteps = <<>>
    /\ pcPropagacion = "servicio"

\* no request thread is inside crearNodoSismo
InitConcurrente == hilos = <<>>

InitResto == InitControlador /\ InitPropagacionFija /\ InitConcurrente

Init == InitMagnitudFija /\ InitCSVVars /\ InitGrafoVars /\ InitResto

Next ==
    \/ LeerFila(Filas, MaxFilas) /\ UNCHANGED <<varsMagnitud, varsGrafo, varsResto>>
    \/ FinArchivo /\ UNCHANGED <<varsMagnitud, varsGrafo, varsResto>>
    \/ FalloLectura /\ UNCHANGED <<varsMagnitud, varsGrafo, varsResto>>

Spec == Init /\ [][Next]_vars

\* Short files over every combination of field errors.
NextCampos ==
    \/ LeerFila(FilasTodas, MaxFilasCampos) /\ UNCHANGED <<varsMagnitud, varsGrafo, varsResto>>
    \/ FinArchivo /\ UNCHANGED <<varsMagnitud, varsGrafo, varsResto>>
    \/ FalloLectura /\ UNCHANGED <<varsMagnitud, varsGrafo, varsResto>>

SpecCampos == Init /\ [][NextCampos]_vars

NextMagnitud == LlamarParseMagnitud /\ UNCHANGED <<varsCSV, varsGrafo, varsResto>>

InitParse == InitMagnitud /\ InitCSVVars /\ InitGrafoVars /\ InitResto

SpecMagnitud == InitParse /\ [][NextMagnitud]_vars

(***************************************************************************)
(* Properties of cargarSismosDesdeCSV                                      *)
(***************************************************************************)
SinDuplicados(lote) == Cardinality(Ids(lote)) = Len(lote)

\* C1: while no save has failed, every row with all the header's fields, whatever
\* combination of its fecha, magnitud, latitud, longitud and profundidad is
\* unparseable, is one record: waiting in the batch or written (never both, never
\* twice) while the file is read, and written once the run has returned.
C1_FilaCompletaUnRegistro ==
    (~falloGuardado /\ pc # "abortado") =>
        /\ SinDuplicados(sismosBatch)
        /\ pc = "leyendo" =>
              /\ almacen \cup Ids(sismosBatch) = filasCompletas
              /\ almacen \cap Ids(sismosBatch) = {}
        /\ pc = "retornado" => almacen = filasCompletas

\* a one-row file whose five fields are all unparseable has been ingested and stored
C1_Witness ==
    /\ pc = "retornado" /\ ~falloGuardado
    /\ registrosProcesados = 1
    /\ \A c \in Campos : fallosPorCampo[c] = 1
    /\ almacen = {1}

\* C2: when the bulk save of a batch fails, every record of the batch is saved
\* individually; exactly the records whose individual save succeeds are written,
\* the others are dropped, and the loop goes on with the next row.
C2_FallbackPorRegistro ==
    [][ (ultimoGuardado' # ultimoGuardado /\ ultimoGuardado'.tipo = "individual") =>
          /\ ultimoGuardado'.exitosos \subseteq ultimoGuardado'.lote
          /\ almacen' = almacen \cup ultimoGuardado'.exitosos
          /\ (ultimoGuardado'.lote \ ultimoGuardado'.exitosos) \cap almacen' = {}
          /\ pc' # "abortado"
          /\ registrosProcesados' > registrosProcesados =>
                /\ ultimoGuardado'.lote = Ids(sismosBatch) \cup {registrosProcesados'}
                /\ pc' = "leyendo"
                /\ sismosBatch' = <<>>
          /\ registrosProcesados' = registrosProcesados =>
                /\ ultimoGuardado'.lote = Ids(sismosBatch)
                /\ pc' = "retornado" ]_vars

\* a failed bulk save was followed by individual saves of which the first failed and
\* a later one succeeded, and the loop is still reading
C2_Witness ==
    /\ pc = "leyendo"
    /\ ultimoGuardado.tipo = "individual"
    /\ \E a, b \in ultimoGuardado.lote :
          a < b /\ a \notin ultimoGuardado.exitosos /\ b \in ultimoGuardado.exitosos
    /\ ultimoGuardado.exitosos \subseteq almacen

\* C3: the count returned equals the number of records the run wrote, the records
\* saved one by one after a failed bulk save included.
C3_RetornoIgualPersistidos ==
    pc = "retornado" => totalRegistros = Cardinality(almacen)

\* C4: at the end of a run the tally's magnitud_invalida equals the number of rows
\* whose magnitud column was garbled, and those rows are saved.
C4_MagnitudInvalidaContada ==
    pc = "retornado" => erroresPorTipo["magnitud_invalida"] = fallosPorCampo["magnitud"]

Diez == Dec(10, 0)

\* C5: the magnitude returned lies in [0.0, 10.0] for every input string.
C5_MagnitudEnRango ==
    magnitud # Pendiente => (magnitud.m >= 0 /\ DecLeq(magnitud, Diez))

\* C6: "7,5" -> 7.5, "75" -> 7.5, "-3.2" -> 3.2, "" -> 0.0, "abc" -> 0.0; a comma is
\* read as a decimal point, non-numeric characters are stripped, and an input that
\* is empty after stripping or cannot be parsed yields 0.0.
C6_EjemplosYLimpieza ==
    magnitud # Pendiente =>
        /\ magnitudStr = <<"7", ",", "5">> => magnitud = Dec(75, 1)
        /\ magnitudStr = <<"7", "5">> => magnitud = Dec(75, 1)
        /\ magnitudStr = <<"-", "3", ".", "2">> => magnitud = Dec(32, 1)
        /\ magnitudStr = <<>> => magnitud = Cero
        /\ magnitudStr = <<"a", "b", "c">> => magnitud = Cero
        /\ magnitud = parseMagnitud(ReplaceComma(magnitudStr))
        /\ magnitud = parseMagnitud(StripNonNumeric(ReplaceComma(magnitudStr)))
        /\ LET cleaned == StripNonNumeric(ReplaceComma(magnitudStr))
           IN  (cleaned = <<>> \/ ~parseDouble(KeepFirstDot(cleaned)).ok) => magnitud = Cero

\* a string with a decimal comma between other characters has been parsed
C6_Witness ==
    /\ magnitudStr = <<"a", "0", ",", "5">>
    /\ magnitud = Dec(5, 1)

\* C7 as stated: with more than one '.', only the first is kept and "6.1.2" gives 6.1.
C7_Original ==
    (magnitud # Pendiente /\ magnitudStr = <<"6", ".", "1", ".", "2">>) =>
        magnitud = Dec(61, 1)

NumDots(s) == Len(s) - Len(RemoveDots(s))

\* C7 amended: with more than one '.', the first '.' stays where it is, the later
\* '.' characters are removed and every digit is kept, so "6.1.2" gives 6.12.
C7_SoloPrimerPunto ==
    magnitud # Pendiente =>
        /\ magnitudStr = <<"6", ".", "1", ".", "2">> => magnitud = Dec(612, 2)
        /\ LET cleaned == Limpiar(magnitudStr)
               kept == KeepFirstDot(cleaned)
           IN  NumDots(cleaned) > 1 =>
                  /\ NumDots(kept) = 1
                  /\ IndexOfDot(kept, 1) = IndexOfDot(cleaned, 1)
                  /\ RemoveDots(kept) = RemoveDots(cleaned)

\* "6.1.2" has been parsed, to 6.12
C7_Witness ==
    /\ magnitudStr = <<"6", ".", "1", ".", "2">>
    /\ magnitud = Dec(612, 2)

(***************************************************************************)
(* GrafoService                                                            *)
(***************************************************************************)
\* Stand-in for the cap of 5 relationships (GrafoService lines 120 and 142),
\* scaled down for checking.
MaxRelaciones == 1
\* Most event nodes built in a run of SpecGrafo.
MaxNodos == 3
\* Most calls of the establecerRelaciones methods on nodes already stored.
MaxReaplicaciones == 1
\* Longest list handed to cargarSismosAGrafo.
MaxLista == 2

\* buscarSismosCercanos(lat, lon, 25): radius in km
RadioCercania == 25
\* buscarUbicacionCercana: <= 5000 metres, in km
ToleranciaUbicacion == 5
\* magnitud +/- 0.5, in tenths
ToleranciaMagnitud == 5

SinMagnitud == -1

(***************************************************************************)
(* The Sismo rows handed to the builder.  Coordinates are kilometres along *)
(* a line and Distancia stands for point.distance; magnitudes are tenths,  *)
(* SinMagnitud is a null magnitud.                                         *)
(***************************************************************************)
Sismos ==
    { [pos |-> 0, magnitud |-> 50],
      [pos |-> 3, magnitud |-> 53],
      [pos |-> 3, magnitud |-> SinMagnitud],
      [pos |-> 20, magnitud |-> 55],
      [pos |-> 40, magnitud |-> 70] }

Distancia(a, b) == IF a >= b THEN a - b ELSE b - a

Grafo == [nodos |-> nodos, ubicaciones |-> ubicaciones]

Codigos(g) == 1..Len(g.nodos)

\* the first n elements of a result list whose order the store decides
Primeros(candidatos, n) ==
    IF Cardinality(candidatos) <= n THEN {candidatos}
    ELSE {t \in SUBSET candidatos : Cardinality(t) = n}

\* the query without its distance test
CercanosSinRadio(g, codigo) == Codigos(g) \ {codigo}

\* buscarSismosCercanos filtered by lines 113-115: stored nodes within the radius,
\* the node itself excluded
Cercanos(g, codigo) ==
    {c \in Codigos(g) :
        /\ Distancia(g.nodos[c].pos, g.nodos[codigo].pos) <= RadioCercania
        /\ c # codigo}

\* establecerRelacionesSismosCercanos: up to MaxRelaciones of the candidates are
\* added to the node's sismosCercanos, and the node is saved
establecerRelacionesSismosCercanos(g, codigo) ==
    { [g EXCEPT !.nodos[codigo].sismosCercanos = @ \cup t] :
        t \in Primeros(Cercanos(g, codigo), MaxRelaciones) }

\* the filter taking a null magnitud for a match
SimilaresConNulos(g, codigo) ==
    {c \in Codigos(g) :
        /\ \/ g.nodos[c].magnitud = SinMagnitud
           \/ /\ g.nodos[c].magnitud >= g.nodos[codigo].magnitud - ToleranciaMagnitud
              /\ g.nodos[c].magnitud <= g.nodos[codigo].magnitud + ToleranciaMagnitud
        /\ c # codigo}

\* lines 137-141: stored nodes with a magnitud within the tolerance, the node
\* itself excluded
Similares(g, codigo) ==
    {c \in Codigos(g) :
        /\ g.nodos[c].magnitud # SinMagnitud
        /\ g.nodos[c].magnitud >= g.nodos[codigo].magnitud - ToleranciaMagnitud
        /\ g.nodos[c].magnitud <= g.nodos[codigo].magnitud + ToleranciaMagnitud
        /\ c # codigo}

\* establecerRelacionesMagnitudSimilar: nothing for a null magnitud; otherwise the
\* first MaxRelaciones matches are added to the node's sismosSimilares
establecerRelacionesMagnitudSimilar(g, codigo) ==
    IF g.nodos[codigo].magnitud = SinMagnitud THEN {g}
    ELSE { [g EXCEPT !.nodos[codigo].sismosSimilares = @ \cup t] :
             t \in Primeros(Similares(g, codigo), MaxRelaciones) }

\* a lookup that finds nothing
UbicacionesCercanasNinguna(g, pos) == {}

\* buscarUbicacionCercana: the stored locations within the tolerance (LIMIT 1
\* returns one of them)
UbicacionesCercanas(g, pos) ==
    {u \in 1..Len(g.ubicaciones) :
        Distancia(g.ubicaciones[u].pos, pos) <= ToleranciaUbicacion}

\* lines 46-69: find or create the location, then save the new node with it
ConNodo(g, sismo, ubicacion) ==
    [g EXCEPT !.nodos = Append(@,
        [codigo |-> Len(g.nodos) + 1, magnitud |-> sismo.magnitud, pos |-> sismo.pos,
         ubicacion |-> ubicacion, sismosCercanos |-> {}, sismosSimilares |-> {}])]

\* the codigo of a stored location that has none (null or empty)
SinCodigo == 0

\* UUID.randomUUID(): a codigo no stored location has
NuevoCodigo(g) ==
    CHOOSE k \in 1..(Len(g.ubicaciones) + 1) :
        \A u \in 1..Len(g.ubicaciones) : g.ubicaciones[u].codigo # k

\* a test that never asks for a codigo
NecesitaCodigoNunca(ubicacion) == FALSE

\* a test that asks for a new codigo every time
NecesitaCodigoSiempre(ubicacion) == TRUE

\* line 54: the location found has no codigo
NecesitaCodigo(ubicacion) == ubicacion.codigo = SinCodigo

\* lines 55-56: the location found is given a codigo and saved. codigo is the
\* @Id that save matches on, so the store either updates the location found or
\* keeps it and writes a second one under the new codigo; the location the
\* node will point at is the one save returns
Identificar(g, u) ==
    { [grafo |-> [g EXCEPT !.ubicaciones[u].codigo = NuevoCodigo(g)],
       ubicacion |-> u],
      [grafo |-> [g EXCEPT !.ubicaciones =
                     Append(@, [codigo |-> NuevoCodigo(g), pos |-> g.ubicaciones[u].pos])],
       ubicacion |-> Len(g.ubicaciones) + 1] }

GuardarNodo(g, sismo) ==
    LET cerca == UbicacionesCercanas(g, sismo.pos)
    IN  IF cerca # {}
        THEN UNION { IF NecesitaCodigo(g.ubicaciones[u])
                     THEN {ConNodo(r.grafo, sismo, r.ubicacion) : r \in Identificar(g, u)}
                     ELSE {ConNodo(g, sismo, u)} : u \in cerca }
        ELSE LET nueva == Len(g.ubicaciones) + 1
                 g2 == [g EXCEPT !.ubicaciones =
                            Append(@, [codigo |-> NuevoCodigo(g), pos |-> sismo.pos])]
             IN  {ConNodo(g2, sismo, nueva)}

\* crearNodoSismo: every graph the call can leave
crearNodoSismo(g, sismo) ==
    UNION { UNION { establecerRelacionesMagnitudSimilar(g3, Len(g2.nodos)) :
                      g3 \in establecerRelacionesSismosCercanos(g2, Len(g2.nodos)) } :
            g2 \in GuardarNodo(g, sismo) }

\* cargarSismosAGrafo: crearNodoSismo on each element in order
RECURSIVE cargarSismosAGrafo(_, _)
cargarSismosAGrafo(g, sismos) ==
    IF sismos = <<>> THEN {g}
    ELSE UNION { cargarSismosAGrafo(g2, Tail(sismos)) : g2 \in crearNodoSismo(g, Head(sismos)) }

Listas == UNION { [1..n -> Sismos] : n \in 1..MaxLista }

PonerGrafo(g) ==
    /\ nodos' = g.nodos
    /\ ubicaciones' = g.ubicaciones

\* a call of crearNodoSismo on a graph of fewer than maximo event nodes
CrearNodoSismoHasta(maximo) ==
    /\ Len(nodos) < maximo
    /\ \E sismo \in Sismos : \E g \in crearNodoSismo(Grafo, sismo) :
          PonerGrafo(g) /\ UNCHANGED reaplicaciones

CrearNodoSismo == CrearNodoSismoHasta(MaxNodos)

\* a call of cargarSismosAGrafo that leaves at most maximo event nodes
CargarSismosAGrafoHasta(maximo) ==
    \E sismos \in Listas :
       /\ Len(nodos) + Len(sismos) <= maximo
       /\ \E g \in cargarSismosAGrafo(Grafo, sismos) :
             PonerGrafo(g) /\ UNCHANGED reaplicaciones

CargarSismosAGrafo == CargarSismosAGrafoHasta(MaxNodos)

\* the public method called on a stored node
EstablecerRelacionesSismosCercanos ==
    /\ reaplicaciones < MaxReaplicaciones
    /\ reaplicaciones' = reaplicaciones + 1
    /\ \E codigo \in Codigos(Grafo) :
          \E g \in establecerRelacionesSismosCercanos(Grafo, codigo) : PonerGrafo(g)

\* the public method called on a stored node
EstablecerRelacionesMagnitudSimilar ==
    /\ reaplicaciones < MaxReaplicaciones
    /\ reaplicaciones' = reaplicaciones + 1
    /\ \E codigo \in Codigos(Grafo) :
          \E g \in establecerRelacionesMagnitudSimilar(Grafo, codigo) : PonerGrafo(g)

NextGrafo ==
    \/ CrearNodoSismo /\ UNCHANGED <<varsMagnitud, varsCSV, varsResto>>
    \/ CargarSismosAGrafo /\ UNCHANGED <<varsMagnitud, varsCSV, varsResto>>
    \/ EstablecerRelacionesSismosCercanos /\ UNCHANGED <<varsMagnitud, varsCSV, varsResto>>
    \/ EstablecerRelacionesMagnitudSimilar /\ UNCHANGED <<varsMagnitud, varsCSV, varsResto>>

SpecGrafo == Init /\ [][NextGrafo]_vars

\* Locations the store can hold before any call of this service: written by
\* other means, some of them without a codigo.
UbicacionesPrevias ==
    { <<>>,
      << [codigo |-> SinCodigo, pos |-> 0] >>,
      << [codigo |-> SinCodigo, pos |-> 3], [codigo |-> 1, pos |-> 40] >>,
      << [codigo |-> 1, pos |-> 0], [codigo |-> SinCodigo, pos |-> 20] >> }

InitUbicaciones ==
    /\ InitMagnitudFija
    /\ InitCSVVars
    /\ nodos = <<>>
    /\ ubicaciones \in UbicacionesPrevias
    /\ reaplicaciones = 0
    /\ InitResto

\* Most event nodes built in a run of SpecUbicaciones.
MaxNodosUbicaciones == 2

NextUbicaciones ==
    \/ CrearNodoSismoHasta(MaxNodosUbicaciones)
          /\ UNCHANGED <<varsMagnitud, varsCSV, varsResto>>
    \/ CargarSismosAGrafoHasta(MaxNodosUbicaciones)
          /\ UNCHANGED <<varsMagnitud, varsCSV, varsResto>>
    \/ EstablecerRelacionesSismosCercanos /\ UNCHANGED <<varsMagnitud, varsCSV, varsResto>>
    \/ EstablecerRelacionesMagnitudSimilar /\ UNCHANGED <<varsMagnitud, varsCSV, varsResto>>

SpecUbicaciones == InitUbicaciones /\ [][NextUbicaciones]_vars

(***************************************************************************)
(* Properties of GrafoService                                              *)
(***************************************************************************)
\* C10: after any sequence of crearNodoSismo, cargarSismosAGrafo,
\* establecerRelacionesSismosCercanos and establecerRelacionesMagnitudSimilar, every
\* event node has at most the cap of NEARBY targets and of SIMILAR_MAGNITUDE
\* targets, and is in neither of its own sets.
C10_LimiteYSinLazo ==
    \A c \in 1..Len(nodos) :
        /\ Cardinality(nodos[c].sismosCercanos) <= MaxRelaciones
        /\ Cardinality(nodos[c].sismosSimilares) <= MaxRelaciones
        /\ c \notin nodos[c].sismosCercanos
        /\ c \notin nodos[c].sismosSimilares

\* the two events of the scenario: 3 km apart, magnitudes 5.0 and 5.3
EscenarioDosEventos == {[pos |-> 0, magnitud |-> 50], [pos |-> 3, magnitud |-> 53]}

\* one call of cargarSismosAGrafo on an empty graph with the two events of the
\* scenario, in either order (the only step that stores two nodes at once)
CargaDelEscenario ==
    /\ nodos = <<>>
    /\ Len(nodos') = 2
    /\ {[pos |-> nodos'[c].pos, magnitud |-> nodos'[c].magnitud] : c \in 1..2}
          = EscenarioDosEventos

\* C11: after cargarSismosAGrafo materializes two events 3 km apart with
\* magnitudes 5.0 and 5.3, each of the two nodes has the other in its NEARBY set
\* and in its SIMILAR_MAGNITUDE set, whatever the order of processing.
C11_AmbosRelacionados ==
    [][CargaDelEscenario =>
          /\ 2 \in nodos'[1].sismosCercanos /\ 2 \in nodos'[1].sismosSimilares
          /\ 1 \in nodos'[2].sismosCercanos /\ 1 \in nodos'[2].sismosSimilares]_vars

\* what the code does in the scenario: only the event processed second is related
\* to the other one
C11_SoloElSegundo ==
    [][CargaDelEscenario =>
          /\ nodos'[1].sismosCercanos = {} /\ nodos'[1].sismosSimilares = {}
          /\ nodos'[2].sismosCercanos = {1} /\ nodos'[2].sismosSimilares = {1}]_vars

(***************************************************************************)
(* GrafoController.cargarDatosExistentesANeo4j (POST /cargar-existentes)   *)
(***************************************************************************)
\* obtenerPorMagnitud(7), in tenths
UmbralCarga == 70

\* rows of table sismos above the threshold of the endpoint
SismosFuertes ==
    { [pos |-> 0, magnitud |-> 75],
      [pos |-> 3, magnitud |-> 78],
      [pos |-> 40, magnitud |-> 90] }

\* rows the relational table may hold
TablaSismos == Sismos \cup SismosFuertes

\* findByMagnitudGreaterThan: a null magnitud never matches
obtenerPorMagnitud(tabla, magnitudMin) ==
    {s \in tabla : s.magnitud # SinMagnitud /\ s.magnitud > magnitudMin}

\* the result lists the query can return, in the order the store decides
ListasDe(filas) == UNION { [1..n -> filas] : n \in 0..MaxLista }

\* cargarSismosAGrafo when crearNodoSismo throws on element falla (0: on none):
\* the loop stops at that element, the catch rethrows and the transaction of the
\* method is rolled back
cargarSismosAGrafoSinRelanzar(g, sismos, falla) ==
    IF falla = 0
    THEN { [grafo |-> g2, excepcion |-> FALSE, aplicados |-> Len(sismos)] :
             g2 \in cargarSismosAGrafo(g, sismos) }
    ELSE { [grafo |-> g2, excepcion |-> FALSE, aplicados |-> falla] :
             g2 \in cargarSismosAGrafo(g, SubSeq(sismos, 1, falla - 1)) }

cargarSismosAGrafoConFallo(g, sismos, falla) ==
    IF falla = 0
    THEN { [grafo |-> g2, excepcion |-> FALSE, aplicados |-> Len(sismos)] :
             g2 \in cargarSismosAGrafo(g, sismos) }
    ELSE { [grafo |-> g, excepcion |-> TRUE, aplicados |-> falla] }

Respuesta(sismos, falla, r) ==
    [respondida |-> TRUE, llamada |-> TRUE, lista |-> sismos, largo |-> Len(sismos),
     falla |-> falla,
     aplicados |-> r.aplicados, excepcion |-> r.excepcion, success |-> ~r.excepcion]

CargarDatosExistentesANeo4j ==
    \E consultaFalla \in BOOLEAN :
       IF consultaFalla
       THEN /\ ultimaCarga' = [SinCarga EXCEPT !.respondida = TRUE]
            /\ UNCHANGED <<varsGrafo, exportado>>
       ELSE \E sismos \in ListasDe(obtenerPorMagnitud(TablaSismos, UmbralCarga)) :
               /\ Len(nodos) + Len(sismos) <= MaxNodos
               /\ IF sismos = <<>>
                  THEN /\ ultimaCarga' = [SinCarga EXCEPT !.respondida = TRUE, !.success = TRUE]
                       /\ UNCHANGED <<varsGrafo, exportado>>
                  ELSE \E falla \in 0..Len(sismos) :
                          \E r \in cargarSismosAGrafoConFallo(Grafo, sismos, falla) :
                             /\ PonerGrafo(r.grafo)
                             /\ ultimaCarga' = Respuesta(sismos, falla, r)
                             /\ UNCHANGED <<reaplicaciones, exportado>>

NextCarga == CargarDatosExistentesANeo4j /\ UNCHANGED <<varsMagnitud, varsCSV, varsPropagacion, varsConcurrente>>

SpecCarga == Init /\ [][NextCarga]_vars

\* C12: if building the graph fails for one event of the list, cargarSismosAGrafo
\* raises the failure to its caller and the endpoint answers success = false.
C12_FalloPropagado ==
    (ultimaCarga.llamada /\ ultimaCarga.falla # 0)
        => (ultimaCarga.excepcion /\ ~ultimaCarga.success)

\* the second event of a two-event list failed and the endpoint answered
\* success = false
C12_Witness ==
    /\ ultimaCarga.llamada /\ ultimaCarga.largo = 2 /\ ultimaCarga.falla = 2
    /\ ultimaCarga.respondida /\ ~ultimaCarga.success

\* C13: in the bulk build, when the per-event procedure fails for one event, the
\* procedure is still applied to every later event of the list.
C13_ContinuaTrasFallo ==
    (ultimaCarga.llamada /\ ultimaCarga.falla # 0)
        => ultimaCarga.aplicados = ultimaCarga.largo

(***************************************************************************)
(* GrafoController.obtenerDatosParaVisualizacion (GET /visualizacion)      *)
(***************************************************************************)
\* Largest limit asked of the export.
MaxLimite == 2
\* Most event nodes of a graph that is exported.
MaxNodosExport == 2

\* values of minMagnitud and maxMagnitud, in tenths
MagnitudesFiltro == {0, 52, 100}

\* lines 164-166: stored nodes whose magnitud is not null and lies in the range
EnRango(g, minMagnitud, maxMagnitud) ==
    {c \in Codigos(g) :
        /\ g.nodos[c].magnitud # SinMagnitud
        /\ g.nodos[c].magnitud >= minMagnitud
        /\ g.nodos[c].magnitud <= maxMagnitud}

\* obtenerSismosFiltrados: the first limit matches of findAll, every selection the
\* store's order allows
obtenerSismosFiltrados(g, minMagnitud, maxMagnitud, limit) ==
    Primeros(EnRango(g, minMagnitud, maxMagnitud), limit)

\* every stored location, whatever the events selected
UbicacionIdsTodas(g, sismos) == 1..Len(g.ubicaciones)

\* lines 79-82: the set of the locations of the selected events
UbicacionIds(g, sismos) == {g.nodos[c].ubicacion : c \in sismos}

\* a set of locations as a list, each once
RECURSIVE EnLista(_)
EnLista(ids) ==
    IF ids = {} THEN <<>>
    ELSE LET u == CHOOSE u \in ids : \A v \in ids : u <= v
         IN  <<u>> \o EnLista(ids \ {u})

\* findAllById: the stored locations among ids, each once
obtenerUbicacionesPorIds(g, ids) ==
    EnLista({u \in 1..Len(g.ubicaciones) : u \in ids})

\* lines 88-103: one node per selected event, then one per location of the list
NodosDe(g, sismos) ==
    LET lista == obtenerUbicacionesPorIds(g, UbicacionIds(g, sismos))
    IN  {<<"sismo", c>> : c \in sismos}
            \cup {<<"ubicacion", lista[i]>> : i \in 1..Len(lista)}

Arista(desde, hasta, label) == [from |-> desde, to |-> hasta, label |-> label]

\* lines 106-134: the relationships of each selected event
AristasDe(g, sismos) ==
    UNION { {Arista(<<"sismo", c>>, <<"sismo", d>>, "CERCANO_A") :
                d \in g.nodos[c].sismosCercanos}
            \cup {Arista(<<"sismo", c>>, <<"sismo", d>>, "SIMILAR_MAGNITUD") :
                d \in g.nodos[c].sismosSimilares}
            \cup {Arista(<<"sismo", c>>, <<"ubicacion", g.nodos[c].ubicacion>>, "OCURRIDO_EN")} :
            c \in sismos }

\* every result the call can return; nothing is written
obtenerDatosParaVisualizacion(g, minMagnitud, maxMagnitud, limit) ==
    { [ubicaciones |-> obtenerUbicacionesPorIds(g, UbicacionIds(g, sismos)),
       nodes |-> NodosDe(g, sismos), edges |-> AristasDe(g, sismos)] :
        sismos \in obtenerSismosFiltrados(g, minMagnitud, maxMagnitud, limit) }

ObtenerDatosParaVisualizacion ==
    \E minMagnitud \in MagnitudesFiltro, maxMagnitud \in MagnitudesFiltro, limit \in 0..MaxLimite :
       \E r \in obtenerDatosParaVisualizacion(Grafo, minMagnitud, maxMagnitud, limit) :
          /\ exportado' = [hecho |-> TRUE, args |-> <<minMagnitud, maxMagnitud, limit>>,
                           grafo |-> Grafo, ubicaciones |-> r.ubicaciones,
                           nodes |-> r.nodes, edges |-> r.edges]
          /\ UNCHANGED <<varsGrafo, ultimaCarga>>

NextExport ==
    \/ CrearNodoSismoHasta(MaxNodosExport) /\ UNCHANGED <<varsMagnitud, varsCSV, varsResto>>
    \/ ObtenerDatosParaVisualizacion /\ UNCHANGED <<varsMagnitud, varsCSV, varsPropagacion, varsConcurrente>>

SpecExport == Init /\ [][NextExport]_vars

\* C14: in the structure returned by the export, every edge connects nodes of the
\* returned node set: no edge points at an event outside the magnitude range or
\* beyond the limit.
C14_AristasEntreNodos ==
    \A e \in exportado.edges : e.from \in exportado.nodes /\ e.to \in exportado.nodes

\* C15: the export never changes the stored graph, and two calls with identical
\* arguments and no write in between return the same nodes and the same edges.
C15_ExportIdempotente ==
    [][(exportado' # exportado) =>
          /\ UNCHANGED <<nodos, ubicaciones>>
          /\ (exportado.hecho /\ exportado'.args = exportado.args /\ exportado.grafo = Grafo)
                => (exportado'.nodes = exportado.nodes /\ exportado'.edges = exportado.edges)]_vars

\* the part of C15 that the code keeps: an export writes nothing
ExportNoEscribe == [][(exportado' # exportado) => UNCHANGED <<nodos, ubicaciones>>]_vars

(***************************************************************************)
(* PropagationController.calculatePropagation and                          *)
(* PropagationService.calculatePropagation                                 *)
(*                                                                         *)
(* durationSeconds, intervalSeconds and the loop variable time are Java    *)
(* ints: two's complement of IntBits bits here, so that time += interval   *)
(* wraps as it does in the code.  Radii are in half kilometres.            *)
(***************************************************************************)
\* Width of int, scaled down from 32.
IntBits == 4

RECURSIVE Pow2(_)
Pow2(n) == IF n = 0 THEN 1 ELSE 2 * Pow2(n - 1)

MAX_VALUE == Pow2(IntBits - 1) - 1
MIN_VALUE == 0 - Pow2(IntBits - 1)
Int32 == MIN_VALUE..MAX_VALUE

\* int addition
Suma(a, b) == ((a + b - MIN_VALUE) % Pow2(IntBits)) + MIN_VALUE

\* 6.0, 3.5 and 2.5 km/s, in half kilometres per second
P_WAVE_VELOCITY == 12
S_WAVE_VELOCITY == 7
SURFACE_WAVE_VELOCITY == 5

\* lines 48-54: the step computed for one value of time
WavePropagation(t) ==
    [timeSeconds |-> t,
     pWaveRadiusKm |-> P_WAVE_VELOCITY * t,
     sWaveRadiusKm |-> S_WAVE_VELOCITY * t,
     surfaceWaveRadiusKm |-> SURFACE_WAVE_VELOCITY * t]

\* A loop over int time that has run Pow2(IntBits) times has seen some value of
\* time twice and never ends; the list then grows until the heap is exhausted.
MaxPasos == Pow2(IntBits)

Requests == [durationSeconds : Int32, intervalSeconds : Int32]

InitPropagacion ==
    /\ request \in Requests
    /\ time = 0
    /\ timeSteps = <<>>
    /\ pcPropagacion = "servicio"

EnBucle == pcPropagacion \in {"servicio", "controlador"}

\* one iteration of for (time = 0; time <= duration; time += interval), in the
\* service (lines 47-57) or in the controller (lines 47-54)
Iterar ==
    /\ EnBucle
    /\ time <= request.durationSeconds
    /\ Len(timeSteps) < MaxPasos
    /\ timeSteps' = Append(timeSteps, WavePropagation(time))
    /\ time' = Suma(time, request.intervalSeconds)
    /\ UNCHANGED <<request, pcPropagacion>>

\* the loop goes on without end: OutOfMemoryError
AgotarMemoria ==
    /\ EnBucle
    /\ time <= request.durationSeconds
    /\ Len(timeSteps) >= MaxPasos
    /\ pcPropagacion' = "sinMemoria"
    /\ UNCHANGED <<request, time, timeSteps>>

\* the service returns; the controller repeats the loop when the list is empty
SalirServicio ==
    /\ pcPropagacion = "servicio"
    /\ time > request.durationSeconds
    /\ IF timeSteps = <<>>
       THEN pcPropagacion' = "controlador" /\ time' = 0
       ELSE pcPropagacion' = "respondido" /\ UNCHANGED time
    /\ UNCHANGED <<request, timeSteps>>

SalirControlador ==
    /\ pcPropagacion = "controlador"
    /\ time > request.durationSeconds
    /\ pcPropagacion' = "respondido"
    /\ UNCHANGED <<request, time, timeSteps>>

NextPropagacion ==
    \/ Iterar /\ UNCHANGED <<varsMagnitud, varsCSV, varsGrafo, varsControlador, varsConcurrente>>
    \/ AgotarMemoria /\ UNCHANGED <<varsMagnitud, varsCSV, varsGrafo, varsControlador, varsConcurrente>>
    \/ SalirServicio /\ UNCHANGED <<varsMagnitud, varsCSV, varsGrafo, varsControlador, varsConcurrente>>
    \/ SalirControlador /\ UNCHANGED <<varsMagnitud, varsCSV, varsGrafo, varsControlador, varsConcurrente>>

InitProp ==
    InitMagnitudFija /\ InitCSVVars /\ InitGrafoVars /\ InitControlador /\ InitPropagacion
        /\ InitConcurrente

SpecPropagacion == InitProp /\ [][NextPropagacion]_vars

\* the request thread keeps running
SpecPropagacionJusta == SpecPropagacion /\ WF_vars(NextPropagacion)

(***************************************************************************)
(* Properties of calculatePropagation                                      *)
(***************************************************************************)
\* the step of the claims for time t: 6.0*t, 3.5*t and 2.5*t, in half kilometres
PasoEsperado(t) ==
    [timeSeconds |-> t, pWaveRadiusKm |-> 12 * t, sWaveRadiusKm |-> 7 * t,
     surfaceWaveRadiusKm |-> 5 * t]

\* t = 0, interval, 2*interval, ... up to the largest multiple not above duration
PasosEsperados(duration, interval) ==
    [k \in 1..((duration \div interval) + 1) |-> PasoEsperado((k - 1) * interval)]

\* C16: for durationSeconds >= 0 and intervalSeconds > 0 the call returns exactly
\* the steps t = 0, interval, 2*interval, ... not above duration, in ascending
\* order, each with radii 6.0*t, 3.5*t and 2.5*t.
C16_PasosExactos ==
    (request.durationSeconds >= 0 /\ request.intervalSeconds > 0) =>
        /\ pcPropagacion # "sinMemoria"
        /\ pcPropagacion = "respondido" =>
              timeSteps = PasosEsperados(request.durationSeconds, request.intervalSeconds)

\* what holds of the code: the same, for requests whose time never passes
\* Integer.MAX_VALUE
PasosExactosSinDesborde ==
    (/\ request.durationSeconds >= 0
     /\ request.intervalSeconds > 0
     /\ request.durationSeconds + request.intervalSeconds <= MAX_VALUE) =>
        /\ pcPropagacion # "sinMemoria"
        /\ pcPropagacion = "respondido" =>
              timeSteps = PasosEsperados(request.durationSeconds, request.intervalSeconds)

\* C17: calculatePropagation terminates and returns a finite sequence of time
\* steps for every request, intervalSeconds zero or negative included.
C17_Termina == <>(pcPropagacion = "respondido")

Invalida(r) == r.durationSeconds < 0 \/ r.intervalSeconds <= 0

\* C18: a request with a negative durationSeconds or a non-positive
\* intervalSeconds is rejected before any time step is computed and gets no
\* normal response.
C18_InvalidaRechazada ==
    Invalida(request) => (timeSteps = <<>> /\ pcPropagacion # "respondido")

\* C19: in every returned sequence each step has pRadiusKm >= sRadiusKm >=
\* surfaceRadiusKm, and of two steps the one with the smaller t has the strictly
\* smaller P radius.
C19_RadiosOrdenados ==
    pcPropagacion = "respondido" =>
        /\ \A k \in 1..Len(timeSteps) :
              /\ timeSteps[k].pWaveRadiusKm >= timeSteps[k].sWaveRadiusKm
              /\ timeSteps[k].sWaveRadiusKm >= timeSteps[k].surfaceWaveRadiusKm
        /\ \A j, k \in 1..Len(timeSteps) :
              timeSteps[j].timeSeconds < timeSteps[k].timeSeconds
                 => timeSteps[j].pWaveRadiusKm < timeSteps[k].pWaveRadiusKm

(***************************************************************************)
(* GrafoService.crearNodoSismo called by several request threads at once.  *)
(* Each call is one transaction: what it writes is seen by the others when *)
(* it commits, at the end of the method.  A thread takes two steps: the    *)
(* lookup of line 47-48, and the rest of the method with its commit.       *)
(***************************************************************************)
\* Number of request threads inside crearNodoSismo at once.
MaxHilos == 2

\* Optional.empty() of buscarUbicacionCercana
SinUbicacion == 0

\* the threads enter crearNodoSismo, each with its own event, on an empty graph
Lanzar ==
    /\ hilos = <<>>
    /\ nodos = <<>>
    /\ ubicaciones = <<>>
    /\ \E sismos \in [1..MaxHilos -> Sismos] :
          hilos' = [h \in 1..MaxHilos |->
                      [pc |-> "buscar", sismo |-> sismos[h], ubicacionExistente |-> SinUbicacion]]
    /\ UNCHANGED varsGrafo

\* lines 47-48: buscarUbicacionCercana over the committed locations
Buscar(h) ==
    /\ hilos[h].pc = "buscar"
    /\ LET cerca == UbicacionesCercanas(Grafo, hilos[h].sismo.pos)
       IN  \E u \in (IF cerca = {} THEN {SinUbicacion} ELSE cerca) :
              hilos' = [hilos EXCEPT ![h].pc = "guardar", ![h].ubicacionExistente = u]
    /\ UNCHANGED varsGrafo

\* lines 50-69 with the result of the lookup made earlier
GuardarNodoCon(g, sismo, ubicacionExistente) ==
    IF ubicacionExistente # SinUbicacion
    THEN ConNodo(g, sismo, ubicacionExistente)
    ELSE LET nueva == Len(g.ubicaciones) + 1
             g2 == [g EXCEPT !.ubicaciones =
                        Append(@, [codigo |-> nueva, pos |-> sismo.pos])]
         IN  ConNodo(g2, sismo, nueva)

\* lines 50-78 and the commit; the location held was read with its codigo, which
\* every location stored in a run of SpecConcurrente has
Completar(h) ==
    /\ hilos[h].pc = "guardar"
    /\ LET g2 == GuardarNodoCon(Grafo, hilos[h].sismo, hilos[h].ubicacionExistente)
       IN  \E g3 \in establecerRelacionesSismosCercanos(g2, Len(g2.nodos)) :
              \E g4 \in establecerRelacionesMagnitudSimilar(g3, Len(g3.nodos)) :
                 PonerGrafo(g4)
    /\ hilos' = [hilos EXCEPT ![h].pc = "hecho"]
    /\ UNCHANGED reaplicaciones

NextConcurrente ==
    \/ Lanzar /\ UNCHANGED <<varsMagnitud, varsCSV, varsControlador, varsPropagacion>>
    \/ \E h \in DOMAIN hilos :
          Buscar(h) /\ UNCHANGED <<varsMagnitud, varsCSV, varsControlador, varsPropagacion>>
    \/ \E h \in DOMAIN hilos :
          Completar(h) /\ UNCHANGED <<varsMagnitud, varsCSV, varsControlador, varsPropagacion>>

SpecConcurrente == Init /\ [][NextConcurrente]_vars

\* C20: when crearNodoSismo runs concurrently for two events within 5 km of each
\* other and no location exists there yet, exactly one location is created and
\* both events' OCCURRED_AT relationships point to it.
C20_UbicacionUnica ==
    (/\ hilos # <<>>
     /\ \A h \in DOMAIN hilos : hilos[h].pc = "hecho"
     /\ \A h, k \in DOMAIN hilos :
           Distancia(hilos[h].sismo.pos, hilos[k].sismo.pos) <= ToleranciaUbicacion)
        => /\ Len(ubicaciones) = 1
           /\ \A c \in 1..Len(nodos) : nodos[c].ubicacion = 1

(***************************************************************************)
(* Field fallbacks of cargarSismosDesdeCSV                                 *)
(***************************************************************************)
\* the fields of C21 with their error kind and their documented default
CamposConDefecto ==
    { [campo |-> "fecha", tipo |-> "fecha_invalida", defecto |-> "hoy"],
      [campo |-> "latitud", tipo |-> "latitud_invalida", defecto |-> "0.0"],
      [campo |-> "longitud", tipo |-> "longitud_invalida", defecto |-> "0.0"],
      [campo |-> "profundidad", tipo |-> "profundidad_invalida", defecto |-> "0.0"] }

\* every row read so far was complete and its record is still in the batch
TodoEnLote == registrosProcesados = Len(sismosBatch)

ConDefecto(lote, d) == {i \in 1..Len(lote) : lote[i][d.campo] = d.defecto}

\* C21: at the end of a run, for each of fecha, latitud, longitud and profundidad,
\* the tally of the field's error kind equals the number of rows in which the field
\* failed to parse, and each such row carries the default (today, or 0.0) in that
\* field.
C21_ConteoYDefectoPorCampo ==
    \A d \in CamposConDefecto :
        /\ pc = "retornado" => erroresPorTipo[d.tipo] = fallosPorCampo[d.campo]
        /\ TodoEnLote => Cardinality(ConDefecto(sismosBatch, d)) = fallosPorCampo[d.campo]

\* a one-row file has been read to its end; fecha and latitud of the row failed,
\* both are tallied once and the record holds today's date and latitud 0.0
C21_Witness ==
    /\ pc = "retornado"
    /\ TodoEnLote /\ Len(sismosBatch) = 1
    /\ sismosBatch[1].fecha = "hoy" /\ sismosBatch[1].latitud = "0.0"
    /\ erroresPorTipo["fecha_invalida"] = 1 /\ erroresPorTipo["latitud_invalida"] = 1

\* records of the batch whose fecha utc did not parse (lines 201-204)
ConFechaUTCDeRespaldo(lote) == {i \in 1..Len(lote) : lote[i].fechaUTC # "csvUTC"}

\* all the increments of the error tally, and those owed to the fields of C21
TotalErrores ==
    erroresPorTipo["fecha_invalida"] + erroresPorTipo["magnitud_invalida"]
        + erroresPorTipo["latitud_invalida"] + erroresPorTipo["longitud_invalida"]
        + erroresPorTipo["profundidad_invalida"] + erroresPorTipo["error_general"]

FallosDeCampos ==
    fallosPorCampo["fecha"] + fallosPorCampo["latitud"] + fallosPorCampo["longitud"]
        + fallosPorCampo["profundidad"]

\* C22: when a row's UTC date cannot be parsed, the record's UTC date is set to the
\* record's primary date, an error-kind counter is incremented for it, and the row
\* goes on to the batch.
C22_FechaUTCRespaldoContado ==
    TodoEnLote =>
        /\ \A i \in ConFechaUTCDeRespaldo(sismosBatch) :
              sismosBatch[i].fechaUTC = sismosBatch[i].fecha
        /\ TotalErrores >= FallosDeCampos + Cardinality(ConFechaUTCDeRespaldo(sismosBatch))

\* the part of C22 the code keeps: the UTC date falls back to the primary date
FechaUTCRespaldo ==
    \A i \in ConFechaUTCDeRespaldo(sismosBatch) :
        sismosBatch[i].fechaUTC = sismosBatch[i].fecha

\* the loop has just read one more record
PasoDeLectura == registrosProcesados' = registrosProcesados + 1

\* the batch of line 214 in that iteration: the record of a complete row is added
LoteTrasLeer ==
    IF filasCompletas' # filasCompletas
    THEN Ids(sismosBatch) \cup {registrosProcesados'}
    ELSE Ids(sismosBatch)

\* C23: the in-memory batch never holds more than the batch size; a save is
\* attempted exactly when the batch reaches that size, and the batch is emptied
\* afterwards whether the bulk save succeeded or fell back; when the run ends the
\* final partial batch goes through the same bulk-then-fallback save, so no record
\* is left without a save attempt.
C23_LoteAcotadoYGuardado ==
    [][/\ Len(sismosBatch') < BatchSize
       /\ PasoDeLectura =>
             IF Cardinality(LoteTrasLeer) >= BatchSize
             THEN /\ ultimoGuardado'.tipo \in {"lote", "individual"}
                  /\ ultimoGuardado'.lote = LoteTrasLeer
                  /\ sismosBatch' = <<>>
             ELSE /\ ultimoGuardado'.tipo = "ninguno"
                  /\ Ids(sismosBatch') = LoteTrasLeer
       /\ (pc = "leyendo" /\ pc' = "retornado") =>
             /\ IF sismosBatch # <<>>
                THEN /\ ultimoGuardado'.tipo \in {"lote", "individual"}
                     /\ ultimoGuardado'.lote = Ids(sismosBatch)
                ELSE ultimoGuardado'.tipo = "ninguno"
             /\ ~falloGuardado' => almacen' = filasCompletas']_vars

\* a run of more rows than a batch has ended: the full batch was flushed on the
\* way and the final partial batch went through the per-record fallback
C23_Witness ==
    /\ pc = "retornado"
    /\ registrosProcesados > BatchSize
    /\ Len(sismosBatch) = 1
    /\ ultimoGuardado.tipo = "individual"
    /\ ultimoGuardado.lote = Ids(sismosBatch)

(***************************************************************************)
(* Properties of the relationships built by GrafoService                   *)
(***************************************************************************)
\* C24: every NEARBY edge links two event nodes at most 25 km apart, every
\* SIMILAR_MAGNITUDE edge links two event nodes whose magnitudes are both present
\* and differ by at most 0.5, and the targets of an event built by crearNodoSismo
\* are nodes that were stored before it.
C24_AristasValidas ==
    \A c \in 1..Len(nodos) :
        /\ \A d \in nodos[c].sismosCercanos :
              /\ d \in 1..Len(nodos)
              /\ Distancia(nodos[c].pos, nodos[d].pos) <= 25
              /\ reaplicaciones = 0 => d < c
        /\ \A d \in nodos[c].sismosSimilares :
              /\ d \in 1..Len(nodos)
              /\ nodos[c].magnitud # SinMagnitud /\ nodos[d].magnitud # SinMagnitud
              /\ nodos[c].magnitud - nodos[d].magnitud <= 5
              /\ nodos[d].magnitud - nodos[c].magnitud <= 5
              /\ reaplicaciones = 0 => d < c

\* a node built by crearNodoSismo has a NEARBY and a SIMILAR_MAGNITUDE target while
\* another stored node is more than 25 km away from it
C24_Witness ==
    /\ reaplicaciones = 0
    /\ \E c, e \in 1..Len(nodos) :
          /\ nodos[c].sismosCercanos # {} /\ nodos[c].sismosSimilares # {}
          /\ Distancia(nodos[c].pos, nodos[e].pos) > 25

\* C25: an event without magnitude gets no SIMILAR_MAGNITUDE edge when it is built,
\* while its NEARBY and OCCURRED_AT relationships are still created, and a node
\* without magnitude is never the target of a SIMILAR_MAGNITUDE edge.
C25_SinMagnitudSinSimilares ==
    \A c \in 1..Len(nodos) :
        /\ nodos[c].magnitud = SinMagnitud =>
              /\ nodos[c].sismosSimilares = {}
              /\ nodos[c].ubicacion \in 1..Len(ubicaciones)
              /\ (reaplicaciones = 0 /\ \E d \in 1..(c - 1) :
                     Distancia(nodos[c].pos, nodos[d].pos) <= 25)
                    => nodos[c].sismosCercanos # {}
        /\ \A d \in nodos[c].sismosSimilares : nodos[d].magnitud # SinMagnitud

\* an event without magnitude was built next to a stored event and got a NEARBY
\* target, and an event built after it has a SIMILAR_MAGNITUDE target
C25_Witness ==
    \E c, e \in 1..Len(nodos) :
       /\ c < e
       /\ nodos[c].magnitud = SinMagnitud
       /\ nodos[c].sismosCercanos # {} /\ nodos[c].sismosSimilares = {}
       /\ Distancia(nodos[c].pos, nodos[e].pos) <= 25
       /\ nodos[e].sismosSimilares # {}

\* C27: after any sequential series of crearNodoSismo calls starting from an empty
\* graph, no two locations have centers within 5 km of each other: an event within
\* 5 km of a stored location reuses it and creates none.
C27_UbicacionesSeparadas ==
    /\ \A u, v \in 1..Len(ubicaciones) :
          u # v => Distancia(ubicaciones[u].pos, ubicaciones[v].pos) > 5
    /\ \A c \in 1..Len(nodos) :
          Distancia(ubicaciones[nodos[c].ubicacion].pos, nodos[c].pos) <= 5

\* two events at different places share the one location of the graph, and a
\* third event further away has its own
C27_Witness ==
    /\ Len(ubicaciones) = 2
    /\ \E c, d, e \in 1..Len(nodos) :
          /\ nodos[c].pos # nodos[d].pos
          /\ nodos[c].ubicacion = nodos[d].ubicacion
          /\ nodos[e].ubicacion # nodos[c].ubicacion


C28_CodigoEstable ==
    [][\A u \in 1..Len(ubicaciones) :
          /\ u \in 1..Len(ubicaciones')
          /\ ubicaciones'[u].pos = ubicaciones[u].pos
          /\ ubicaciones[u].codigo # SinCodigo =>
                ubicaciones'[u].codigo = ubicaciones[u].codigo]_vars

\* a location stored without a codigo has one now, and a location that had one
\* when the run began has been reused by a node
C28_Witness ==
    /\ Len(ubicaciones) >= 2
    /\ ubicaciones[1].pos = 3
    /\ ubicaciones[1].codigo # SinCodigo
    /\ ubicaciones[2].codigo = 1
    /\ \E c \in 1..Len(nodos) : nodos[c].ubicacion = 2


\* C29: a call of cargarSismosAGrafo that returns normally, made with the list of
\* the call before it, which also returned normally, leaves the nodes and the
\* locations of the graph as they were.
C29_SegundaCargaSinEfecto ==
    [][(/\ ultimaCarga.llamada /\ ~ultimaCarga.excepcion
        /\ ultimaCarga'.llamada /\ ~ultimaCarga'.excepcion
        /\ ultimaCarga'.lista = ultimaCarga.lista)
          => (nodos' = nodos /\ ubicaciones' = ubicaciones)]_vars

\* a second run over the same list never removes what the first run stored
SegundaCargaSoloAgrega ==
    [][(/\ ultimaCarga.llamada /\ ~ultimaCarga.excepcion
        /\ ultimaCarga'.llamada /\ ~ultimaCarga'.excepcion
        /\ ultimaCarga'.lista = ultimaCarga.lista)
          => (/\ Len(nodos') = Len(nodos) + Len(ultimaCarga.lista)
              /\ ubicaciones' = ubicaciones)]_vars


\* the events of the node set of the last export
SismosExportados == {n[2] : n \in {x \in exportado.nodes : x[1] = "sismo"}}

\* the locations of the node set of the last export
UbicacionesExportadas == {n[2] : n \in {x \in exportado.nodes : x[1] = "ubicacion"}}

\* C30: the node set of an export holds at most limit event nodes, each with a
\* magnitud that is present and within [minMagnitud, maxMagnitud]; its location
\* nodes are the locations those events refer to, no other, each once.
C30_NodosDelExport ==
    exportado.hecho =>
        LET g == exportado.grafo
            minMagnitud == exportado.args[1]
            maxMagnitud == exportado.args[2]
            limit == exportado.args[3]
        IN  /\ Cardinality(SismosExportados) <= limit
            /\ \A c \in SismosExportados :
                  /\ c \in Codigos(g)
                  /\ g.nodos[c].magnitud # SinMagnitud
                  /\ g.nodos[c].magnitud >= minMagnitud
                  /\ g.nodos[c].magnitud <= maxMagnitud
            /\ UbicacionesExportadas = {g.nodos[c].ubicacion : c \in SismosExportados}
            /\ \A i, j \in 1..Len(exportado.ubicaciones) :
                  exportado.ubicaciones[i] = exportado.ubicaciones[j] => i = j
            /\ UbicacionesExportadas =
                  {exportado.ubicaciones[i] : i \in 1..Len(exportado.ubicaciones)}

\* two events at different places that share a location are exported with
\* limit 2, and the location is in the list once
C30_Witness ==
    /\ exportado.hecho
    /\ exportado.grafo = Grafo
    /\ Len(nodos) = 2
    /\ nodos[1].pos # nodos[2].pos
    /\ SismosExportados = {1, 2}
    /\ exportado.args[3] = 2
    /\ Len(exportado.ubicaciones) = 1
====
